---- MODULE Spec2Model ----
(***************************************************************************)
(* One "Analyze" turn of the AI data visualisation agent                   *)
(* (src/ai_data_visualisation_agent.py): the sandbox session is acquired,  *)
(* the dataset is staged, the completion service is asked for code, the    *)
(* first python block of the reply is extracted and run in the sandbox,    *)
(* and the returned artifacts are classified and rendered one by one.      *)
(*                                                                         *)
(* Texts are sequences of tokens: "F" is a fence (three backticks), "P"    *)
(* the language tag python, "N" a line break, and any other token a piece  *)
(* of ordinary text.                                                       *)
(***************************************************************************)
EXTENDS Naturals, Sequences, FiniteSets

VARIABLES
    pc,                \* position in main(): idle, upload, llm, run, show, render, done, failed
    sandbox,           \* the Sandbox context manager: none, open, closed
    together_api_key,  \* st.session_state.together_api_key
    e2b_api_key,       \* st.session_state.e2b_api_key
    uploaded_file,     \* uploaded_file.name
    query,             \* the text area's content
    sandbox_files,     \* the paths written in the sandbox's filesystem
    dataset_path,      \* what upload_dataset returned
    messages,          \* the messages handed to the completion service
    llm_response,      \* response.choices[0].message.content
    python_code,       \* what match_code_blocks returned
    run_code_args,     \* the source texts handed to run_code
    exec,              \* the Execution that run_code returned
    code_results,      \* the first component of chat_with_llm's return value
    chat_returned,     \* chat_with_llm returned normally
    raised,            \* the exception that left main(), if any
    notices,           \* st.warning / st.error notices raised
    events,            \* the external calls of the turn, in order
    rendered,          \* the artifacts the loop has taken a rendering branch for
    idx                \* the loop's position in code_results

vars == <<pc, sandbox, together_api_key, e2b_api_key, uploaded_file, query,
          sandbox_files, dataset_path, messages, llm_response, python_code,
          run_code_args, exec, code_results, chat_returned, raised, notices,
          events, rendered, idx>>

(***************************************************************************)
(* Bounds of the model.                                                    *)
(***************************************************************************)
MaxResults == 2
MaxReplyLen == 6

(***************************************************************************)
(* Values.                                                                 *)
(***************************************************************************)
None == [none |-> TRUE, val |-> <<>>]
Some(x) == [none |-> FALSE, val |-> x]

\* The Execution of run_code: its error (set or not) and its results.
NoExecution == [called |-> FALSE, error |-> FALSE, results |-> <<>>]
Execution(error, results) == [called |-> TRUE, error |-> error, results |-> results]

\* Python's truth value of an Optional[List]: None and [] are both false.
Truthy(opt) == ~opt.none /\ opt.val # <<>>

Keys == {"", "key"}
FileNames == {"data.csv", "sales.csv"}
Queries == {"q1", "q2"}

\* An artifact, by what the rendering loop probes of it.
Artifacts == [png : {"absent", "empty", "data"}, figure : BOOLEAN,
              show : BOOLEAN, tabular : BOOLEAN]

SeqsUpTo(S, n) == UNION {[1..k -> S] : k \in 0..n}

\* One artifact of each category, the first of them with a second capability
\* (png and show), the second with an empty png payload beside its figure.
SandboxArtifacts ==
    { [png |-> "data", figure |-> FALSE, show |-> TRUE, tabular |-> FALSE],
      [png |-> "empty", figure |-> TRUE, show |-> FALSE, tabular |-> FALSE],
      [png |-> "absent", figure |-> FALSE, show |-> TRUE, tabular |-> FALSE],
      [png |-> "absent", figure |-> FALSE, show |-> FALSE, tabular |-> TRUE],
      [png |-> "absent", figure |-> FALSE, show |-> FALSE, tabular |-> FALSE] }

\* The result lists run_code returns in a turn: every single artifact, and
\* every list of up to MaxResults of the artifacts above.
ResultSeqs == SeqsUpTo(SandboxArtifacts, MaxResults) \cup {<<a>> : a \in Artifacts}

Tokens == {"F", "P", "N", "a"}

\* The replies the completion service gives in a turn.
Replies ==
    { <<"a">>,
      <<"F", "N", "a", "N", "F">>,
      <<"F", "P", "N", "N", "F">>,
      <<"a", "N", "F", "P", "N", "a", "N", "F">>,
      <<"F", "P", "N", "a", "N", "a", "N", "F", "N", "F", "P", "N", "N", "F">> }

(***************************************************************************)
(* pattern = re.compile(r"```python\n(.*?)\n```", re.DOTALL)               *)
(***************************************************************************)
OpenerAt(r, i) ==
    /\ i + 2 <= Len(r)
    /\ r[i] = "F" /\ r[i + 1] = "P" /\ r[i + 2] = "N"

CloserAt(r, j) == j + 1 <= Len(r) /\ r[j] = "N" /\ r[j + 1] = "F"

\* The places a match of the whole pattern can start and its group can end.
MatchStarts(r) ==
    {i \in 1..Len(r) : OpenerAt(r, i) /\ \E j \in (i + 3)..Len(r) : CloserAt(r, j)}

Least(S) == CHOOSE x \in S : \A y \in S : x <= y

\* (.*?) is reluctant: the group ends at the first closer after the opener.
GroupEnd(r, i) == Least({j \in (i + 3)..Len(r) : CloserAt(r, j)})

\* pattern.search: the leftmost match, as [found, group1].
pattern_search(r) ==
    IF MatchStarts(r) = {} THEN [found |-> FALSE, group1 |-> <<>>]
    ELSE LET i == Least(MatchStarts(r))
         IN [found |-> TRUE, group1 |-> SubSeq(r, i + 3, GroupEnd(r, i) - 1)]

match_code_blocks(llm_response_text) ==
    LET match == pattern_search(llm_response_text)
    IN IF match.found THEN match.group1 ELSE <<>>

Init ==
    /\ pc = "idle"
    /\ sandbox = "none"
    /\ together_api_key = ""
    /\ e2b_api_key = ""
    /\ uploaded_file = "data.csv"
    /\ query = "q1"
    /\ sandbox_files = {}
    /\ dataset_path = None
    /\ messages = <<>>
    /\ llm_response = None
    /\ python_code = <<>>
    /\ run_code_args = <<>>
    /\ exec = NoExecution
    /\ code_results = None
    /\ chat_returned = FALSE
    /\ raised = "none"
    /\ notices = {}
    /\ events = <<>>
    /\ rendered = <<>>
    /\ idx = 0

(***************************************************************************)
(* upload_dataset: the path is built once, written to and returned; a      *)
(* failed write is reported with st.error and raised again.                *)
(***************************************************************************)
upload_dataset_swallow(name, write_ok) ==
    LET path == <<"./", name>>
    IN IF write_ok
       THEN [raised |-> FALSE, written |-> {path}, ret |-> Some(path), notices |-> {}]
       ELSE [raised |-> FALSE, written |-> {}, ret |-> Some(path),
             notices |-> {"error:upload"}]

upload_dataset_bare_name(name, write_ok) ==
    IF write_ok
    THEN [raised |-> FALSE, written |-> {<<"./", name>>}, ret |-> Some(<<name>>),
          notices |-> {}]
    ELSE [raised |-> TRUE, written |-> {}, ret |-> None, notices |-> {"error:upload"}]

upload_dataset(name, write_ok) ==
    LET path == <<"./", name>>
    IN IF write_ok
       THEN [raised |-> FALSE, written |-> {path}, ret |-> Some(path), notices |-> {}]
       ELSE [raised |-> TRUE, written |-> {}, ret |-> None, notices |-> {"error:upload"}]

(***************************************************************************)
(* chat_with_llm, up to the completion call: the system prompt embeds the  *)
(* dataset path twice; the messages are the system prompt and the query.   *)
(***************************************************************************)
system_prompt(path) ==
    <<"You are given a dataset at path '">> \o path
        \o <<"' ... Always use the dataset path variable '">> \o path
        \o <<"' in your code when reading the CSV file.">>

build_messages(user_message, path) ==
    << [role |-> "system", content |-> system_prompt(path)],
       [role |-> "user", content |-> <<user_message>>] >>

\* client.chat.completions.create(...) and response.choices[0].message: a
\* failure of the call is not caught anywhere in chat_with_llm.
completions_create_swallow(outcome, reply) ==
    IF outcome = "ok" THEN [raised |-> FALSE, content |-> reply]
    ELSE [raised |-> FALSE, content |-> <<>>]

completions_create(outcome, reply) ==
    IF outcome = "ok" THEN [raised |-> FALSE, content |-> reply]
    ELSE [raised |-> TRUE, content |-> <<>>]

\* if python_code: ... else: ...
has_code_always(code) == TRUE

has_code(code) == code # <<>>

(***************************************************************************)
(* code_interpret, after run_code returned.                                *)
(***************************************************************************)
code_interpret_ignore_error(execution) == Some(execution.results)

code_interpret_none_when_empty(execution) ==
    IF execution.error \/ execution.results = <<>> THEN None
    ELSE Some(execution.results)

code_interpret(execution) ==
    IF execution.error THEN None ELSE Some(execution.results)

(***************************************************************************)
(* The rendering loop's branches, one per category.                        *)
(***************************************************************************)
classify_show_first(result) ==
    IF result.show THEN "interactiveChart"
    ELSE IF result.png = "data" THEN "image"
    ELSE IF result.figure THEN "figure"
    ELSE IF result.tabular THEN "tabular"
    ELSE "raw"

classify(result) ==
    IF result.png = "data" THEN "image"
    ELSE IF result.figure THEN "figure"
    ELSE IF result.show THEN "interactiveChart"
    ELSE IF result.tabular THEN "tabular"
    ELSE "raw"

\* for result in code_results: the i-th iteration's result.
loop_result_reversed(results, i) == results[Len(results) + 1 - i]

loop_result(results, i) == results[i]

(***************************************************************************)
(* with Sandbox(...) as code_interpreter: leaving the block, normally or   *)
(* by an exception, runs the context manager's exit.                       *)
(***************************************************************************)
sandbox_exit_leak(s) == s

sandbox_exit(s) == "closed"

LeaveWith(ev) ==
    /\ sandbox' = sandbox_exit(sandbox)
    /\ events' = IF sandbox_exit(sandbox) = "closed" THEN Append(ev, "release") ELSE ev

\* An exception leaves the with block and main().
Unwind(exception, ev) ==
    /\ pc' = "failed"
    /\ raised' = exception
    /\ LeaveWith(ev)

\* The with block ends normally.
Finish(ev) ==
    /\ pc' = "done"
    /\ raised' = raised
    /\ LeaveWith(ev)

(***************************************************************************)
(* main(), from the click on "Analyze".                                    *)
(***************************************************************************)
ClickAnalyze(tk, ek, name, q, sandbox_ok) ==
    /\ pc = "idle"
    /\ together_api_key' = tk
    /\ e2b_api_key' = ek
    /\ uploaded_file' = name
    /\ query' = q
    /\ IF tk = "" \/ ek = ""
       THEN /\ notices' = notices \cup {"error:keys"}
            /\ pc' = "done"
            /\ UNCHANGED <<sandbox, events, raised>>
       ELSE IF sandbox_ok
       THEN /\ sandbox' = "open"
            /\ events' = Append(events, "acquire")
            /\ pc' = "upload"
            /\ UNCHANGED <<notices, raised>>
       ELSE /\ pc' = "failed"
            /\ raised' = "SandboxError"
            /\ UNCHANGED <<sandbox, events, notices>>
    /\ UNCHANGED <<sandbox_files, dataset_path, messages, llm_response, python_code,
                   run_code_args, exec, code_results, chat_returned, rendered, idx>>

UploadDataset(write_ok) ==
    /\ pc = "upload"
    /\ LET r == upload_dataset(uploaded_file, write_ok)
           ev == Append(events, IF write_ok THEN "write" ELSE "write_failed")
       IN /\ sandbox_files' = sandbox_files \cup r.written
          /\ dataset_path' = r.ret
          /\ notices' = notices \cup r.notices
          /\ IF r.raised
             THEN Unwind("StagingFailure", ev)
             ELSE /\ pc' = "llm"
                  /\ events' = ev
                  /\ UNCHANGED <<sandbox, raised>>
    /\ UNCHANGED <<together_api_key, e2b_api_key, uploaded_file, query, messages,
                   llm_response, python_code, run_code_args, exec, code_results,
                   chat_returned, rendered, idx>>

CompletionCall(outcome, reply) ==
    /\ pc = "llm"
    /\ messages' = build_messages(query, dataset_path.val)
    /\ LET r == completions_create(outcome, reply)
           ev == Append(events, IF outcome = "ok" THEN "completion"
                                ELSE "completion_failed")
       IN IF r.raised
          THEN /\ Unwind("CompletionFailure", ev)
               /\ UNCHANGED <<llm_response, python_code, code_results, chat_returned,
                              notices>>
          ELSE LET code == match_code_blocks(r.content)
                   ev2 == Append(ev, "extract")
               IN /\ llm_response' = Some(r.content)
                  /\ python_code' = code
                  /\ IF has_code(code)
                     THEN /\ pc' = "run"
                          /\ events' = ev2
                          /\ UNCHANGED <<code_results, chat_returned, notices,
                                         sandbox, raised>>
                     ELSE /\ notices' = notices \cup {"warning:no_code"}
                          /\ code_results' = None
                          /\ chat_returned' = TRUE
                          /\ pc' = "show"
                          /\ events' = ev2
                          /\ UNCHANGED <<sandbox, raised>>
    /\ UNCHANGED <<together_api_key, e2b_api_key, uploaded_file, query, sandbox_files,
                   dataset_path, run_code_args, exec, rendered, idx>>

RunCode(outcome, results) ==
    /\ pc = "run"
    /\ run_code_args' = Append(run_code_args, python_code)
    /\ LET ev == Append(events, "run_code")
       IN IF outcome = "raise"
          THEN /\ Unwind("SandboxError", ev)
               /\ UNCHANGED <<exec, code_results, chat_returned>>
          ELSE LET execution == Execution(outcome = "error", results)
               IN /\ exec' = execution
                  /\ code_results' = code_interpret(execution)
                  /\ chat_returned' = TRUE
                  /\ pc' = "show"
                  /\ events' = ev
                  /\ UNCHANGED <<sandbox, raised>>
    /\ UNCHANGED <<together_api_key, e2b_api_key, uploaded_file, query, sandbox_files,
                   dataset_path, messages, llm_response, python_code, notices,
                   rendered, idx>>

\* st.subheader / st.write(llm_response), then "if code_results:".
ShowResponse ==
    /\ pc = "show"
    /\ IF Truthy(code_results)
       THEN /\ pc' = "render"
            /\ idx' = 1
            /\ UNCHANGED <<sandbox, events, raised>>
       ELSE /\ Finish(events)
            /\ UNCHANGED idx
    /\ UNCHANGED <<together_api_key, e2b_api_key, uploaded_file, query, sandbox_files,
                   dataset_path, messages, llm_response, python_code, run_code_args,
                   exec, code_results, chat_returned, notices, rendered>>

\* One iteration of the loop: the branch is chosen, then its st.* call is made,
\* which may raise.
RenderResult(render_ok) ==
    /\ pc = "render"
    /\ LET result == loop_result(code_results.val, idx)
       IN rendered' = Append(rendered, [category |-> classify(result),
                                        payload |-> result])
    /\ IF ~render_ok
       THEN /\ Unwind("RenderError", events)
            /\ UNCHANGED idx
       ELSE IF idx = Len(code_results.val)
       THEN /\ Finish(events)
            /\ UNCHANGED idx
       ELSE /\ idx' = idx + 1
            /\ UNCHANGED <<pc, sandbox, events, raised>>
    /\ UNCHANGED <<together_api_key, e2b_api_key, uploaded_file, query, sandbox_files,
                   dataset_path, messages, llm_response, python_code, run_code_args,
                   exec, code_results, chat_returned, notices>>

\* The script runs again from the top on the next interaction: nothing of the
\* turn is kept.
Rerun ==
    /\ pc \in {"done", "failed"}
    /\ pc' = "idle"
    /\ sandbox' = "none"
    /\ together_api_key' = ""
    /\ e2b_api_key' = ""
    /\ uploaded_file' = "data.csv"
    /\ query' = "q1"
    /\ sandbox_files' = {}
    /\ dataset_path' = None
    /\ messages' = <<>>
    /\ llm_response' = None
    /\ python_code' = <<>>
    /\ run_code_args' = <<>>
    /\ exec' = NoExecution
    /\ code_results' = None
    /\ chat_returned' = FALSE
    /\ raised' = "none"
    /\ notices' = {}
    /\ events' = <<>>
    /\ rendered' = <<>>
    /\ idx' = 0

Next ==
    \/ \E tk \in Keys, ek \in Keys, name \in FileNames, q \in Queries,
          sandbox_ok \in BOOLEAN : ClickAnalyze(tk, ek, name, q, sandbox_ok)
    \/ \E write_ok \in BOOLEAN : UploadDataset(write_ok)
    \/ \E outcome \in {"ok", "fail"}, reply \in Replies : CompletionCall(outcome, reply)
    \/ \E outcome \in {"results", "error", "raise"}, results \in ResultSeqs :
          RunCode(outcome, results)
    \/ ShowResponse
    \/ \E render_ok \in BOOLEAN : RenderResult(render_ok)
    \/ Rerun

Spec == Init /\ [][Next]_vars

(***************************************************************************)
(* match_code_blocks on its own: every reply of up to MaxReplyLen tokens,  *)
(* and the replies of a turn.                                              *)
(***************************************************************************)
ExtractInputs ==
    SeqsUpTo(Tokens, MaxReplyLen) \cup Replies
        \cup { <<"F", "P", "N", "F", "N", "a", "N", "F", "P", "N", "a", "N", "F">> }

InitExtract ==
    /\ pc = "extract"
    /\ \E r \in ExtractInputs : llm_response = Some(r)
    /\ sandbox = "none"
    /\ together_api_key = ""
    /\ e2b_api_key = ""
    /\ uploaded_file = "data.csv"
    /\ query = "q1"
    /\ sandbox_files = {}
    /\ dataset_path = None
    /\ messages = <<>>
    /\ python_code = <<>>
    /\ run_code_args = <<>>
    /\ exec = NoExecution
    /\ code_results = None
    /\ chat_returned = FALSE
    /\ raised = "none"
    /\ notices = {}
    /\ events = <<>>
    /\ rendered = <<>>
    /\ idx = 0

MatchCodeBlocks ==
    /\ pc = "extract"
    /\ python_code' = match_code_blocks(llm_response.val)
    /\ pc' = "extracted"
    /\ UNCHANGED <<sandbox, together_api_key, e2b_api_key, uploaded_file, query,
                   sandbox_files, dataset_path, messages, llm_response, run_code_args,
                   exec, code_results, chat_returned, raised, notices, events,
                   rendered, idx>>

NextExtract == MatchCodeBlocks

SpecExtract == InitExtract /\ [][NextExtract]_vars

(***************************************************************************)
(* The properties.                                                         *)
(***************************************************************************)
Has(ev, e) == \E k \in 1..Len(ev) : ev[k] = e

EndOfTurn == pc \in {"done", "failed"}

\* The reply's lines: the pieces between its line breaks.
RECURSIVE SplitLines(_)
SplitLines(r) ==
    IF \A k \in 1..Len(r) : r[k] # "N" THEN <<r>>
    ELSE LET k == Least({m \in 1..Len(r) : r[m] = "N"})
         IN <<SubSeq(r, 1, k - 1)>> \o SplitLines(SubSeq(r, k + 1, Len(r)))

RECURSIVE JoinLines(_)
JoinLines(ls) ==
    IF ls = <<>> THEN <<>>
    ELSE IF Len(ls) = 1 THEN ls[1]
    ELSE ls[1] \o <<"N">> \o JoinLines(Tail(ls))

StartsWithFence(line) == line # <<>> /\ line[1] = "F"
HasFence(line) == \E k \in 1..Len(line) : line[k] = "F"

\* The lines of r that hold a fence, and the fence lines after line o.
FenceLines(r) == {k \in 1..Len(SplitLines(r)) : HasFence(SplitLines(r)[k])}
ClosersAfter(r, o) ==
    {k \in (o + 1)..Len(SplitLines(r)) : StartsWithFence(SplitLines(r)[k])}

\* The first fence of r is the line ```python, and the next line that starts
\* with a fence is a bare fence: r's first fenced block is a python block.
LeadsWithPythonBlock(r) ==
    /\ FenceLines(r) # {}
    /\ LET o == Least(FenceLines(r))
       IN /\ SplitLines(r)[o] = <<"F", "P">>
          /\ ClosersAfter(r, o) # {}
          /\ SplitLines(r)[Least(ClosersAfter(r, o))] = <<"F">>

\* The lines between that block's fence lines.
FirstBlockInterior(r) ==
    LET o == Least(FenceLines(r))
        c == Least(ClosersAfter(r, o))
    IN JoinLines(SubSeq(SplitLines(r), o + 1, c - 1))

\* C7: for every reply whose first fenced block is a well-formed python block,
\* match_code_blocks returns exactly the text between that block's fence lines,
\* also when more blocks follow.
C7_ExtractReturnsFirstBlockInterior ==
    (pc = "extracted" /\ LeadsWithPythonBlock(llm_response.val))
        => python_code = FirstBlockInterior(llm_response.val)

\* The reply of the turn yields no code: match_code_blocks gives "".
NoCodeReply == ~llm_response.none /\ match_code_blocks(llm_response.val) = <<>>

\* C1: in a turn whose reply yields the empty string from match_code_blocks,
\* chat_with_llm returns the reply text with artifacts None, the warning is
\* raised, and run_code is never called.
C1_NoCodeTurn ==
    NoCodeReply =>
        /\ chat_returned
        /\ code_results = None
        /\ "warning:no_code" \in notices
        /\ run_code_args = <<>>
        /\ ~Has(events, "run_code")
        /\ ~exec.called
        /\ raised = "none"
        /\ pc \in {"show", "done"}

C1_Witness ==
    /\ pc = "done"
    /\ NoCodeReply
    /\ llm_response.val = <<"F", "P", "N", "N", "F">>
    /\ "warning:no_code" \in notices

\* C2: when code was extracted and the sandbox reports an error for it,
\* code_interpret returns None whatever the results, and chat_with_llm returns
\* normally with the reply text and no artifacts; no exception escapes.
C2_ExecutionErrorTurn ==
    (exec.called /\ exec.error) =>
        /\ python_code # <<>>
        /\ run_code_args = <<python_code>>
        /\ code_results = None
        /\ chat_returned
        /\ ~llm_response.none /\ llm_response.val # <<>>
        /\ raised = "none"
        /\ rendered = <<>>
        /\ pc \in {"show", "done"}

C2_Witness ==
    /\ pc = "done"
    /\ exec.called /\ exec.error
    /\ Len(exec.results) = 2
    /\ code_results = None

\* C3: the artifacts chat_with_llm returns are None exactly when no code was
\* extracted or the sandbox reported an error; after a run without error they
\* are the sandbox's results, the empty list included.
C3_ArtifactsAbsentExactly ==
    chat_returned =>
        /\ (code_results = None) <=> (NoCodeReply \/ (exec.called /\ exec.error))
        /\ (exec.called /\ ~exec.error) => code_results = Some(exec.results)
        /\ ~NoCodeReply => exec.called

C3_Witness ==
    /\ pc = "done"
    /\ chat_returned
    /\ exec.called /\ ~exec.error /\ exec.results = <<>>
    /\ code_results = Some(<<>>)
    /\ code_results # None

\* The session is held at the k-th event: acquired before it, not yet released.
HeldAt(ev, k) ==
    /\ \E a \in 1..(k - 1) : ev[a] = "acquire"
    /\ \A b \in 1..(k - 1) : ev[b] # "release"

SandboxCalls == {"write", "write_failed", "run_code"}

\* C4: the session acquired for a turn is released on every way out of the
\* turn, and staging and execution happen only while it is held.
C4_SessionReleased ==
    /\ EndOfTurn => sandbox # "open"
    /\ (EndOfTurn /\ Has(events, "acquire")) =>
           sandbox = "closed" /\ events[Len(events)] = "release"
    /\ pc = "idle" => sandbox = "none"
    /\ \A k \in 1..Len(events) : events[k] \in SandboxCalls => HeldAt(events, k)
    /\ pc \in {"upload", "llm", "run", "show", "render"} => sandbox = "open"

C4_Witness ==
    /\ pc = "failed"
    /\ raised = "RenderError"
    /\ Len(rendered) = 2
    /\ sandbox = "closed"

\* C5: a failed dataset write is propagated and ends the turn with no
\* completion call and no run_code call; a completion call is only made after
\* a successful stage.
C5_StagingFailureFirst ==
    /\ Has(events, "write_failed") =>
           /\ raised = "StagingFailure"
           /\ pc = "failed"
           /\ messages = <<>>
           /\ ~Has(events, "completion") /\ ~Has(events, "completion_failed")
           /\ ~Has(events, "run_code")
           /\ run_code_args = <<>>
    /\ \A k \in 1..Len(events) :
           events[k] \in {"completion", "completion_failed"} =>
               /\ \E w \in 1..(k - 1) : events[w] = "write"
               /\ sandbox_files # {}
    /\ messages # <<>> => sandbox_files # {}

C5_Witness ==
    /\ pc = "failed"
    /\ raised = "StagingFailure"
    /\ Has(events, "write_failed")
    /\ "error:upload" \in notices

\* The categories in their priority order, and what each asks of an artifact.
CategoryOrder == <<"image", "figure", "interactiveChart", "tabular", "raw">>

Qualifies(a, category) ==
    CASE category = "image" -> a.png = "data"
      [] category = "figure" -> a.figure
      [] category = "interactiveChart" -> a.show
      [] category = "tabular" -> a.tabular
      [] category = "raw" -> TRUE

FirstMatch(a) ==
    CategoryOrder[Least({k \in 1..Len(CategoryOrder) : Qualifies(a, CategoryOrder[k])})]

\* C6: every artifact is given the first category it qualifies for in the
\* order image, figure, interactiveChart, tabular, raw; one with both png and
\* show is an image, never an interactive chart.
C6_FirstMatchWins ==
    \A i \in 1..Len(rendered) :
        /\ rendered[i].category = FirstMatch(rendered[i].payload)
        /\ (rendered[i].payload.png = "data" /\ rendered[i].payload.show)
               => rendered[i].category = "image"

C6_Witness ==
    /\ Len(rendered) = 1
    /\ rendered[1].payload.png = "data" /\ rendered[1].payload.show
    /\ rendered[1].payload.figure /\ rendered[1].payload.tabular
    /\ rendered[1].category = "image"

\* C8: a failed completion call leaves chat_with_llm as an exception: nothing
\* is returned, nothing is extracted and run_code is not called.
C8_CompletionFailurePropagates ==
    Has(events, "completion_failed") =>
        /\ raised = "CompletionFailure"
        /\ pc = "failed"
        /\ ~chat_returned
        /\ llm_response.none /\ code_results.none
        /\ ~Has(events, "extract")
        /\ ~Has(events, "run_code")
        /\ run_code_args = <<>>

C8_Witness ==
    /\ pc = "failed"
    /\ raised = "CompletionFailure"
    /\ Has(events, "completion_failed")
    /\ Len(messages) = 2

RunSucceeded == exec.called /\ ~exec.error

\* rendered is the classification of the first n results, in their order.
ClassifiedPrefix(n) ==
    /\ Len(rendered) = n
    /\ n <= Len(exec.results)
    /\ \A i \in 1..n :
           /\ rendered[i].payload = exec.results[i]
           /\ rendered[i].category = FirstMatch(exec.results[i])

HoldsAt(t, p, i) == i + Len(p) - 1 <= Len(t) /\ SubSeq(t, i, i + Len(p) - 1) = p

\* C10: the path upload_dataset writes to is the path it returns and the path
\* in the system prompt; the messages are the system message and then the
\* user's query, unchanged.
C10_PathStable ==
    /\ ~dataset_path.none => sandbox_files = {dataset_path.val}
    /\ messages # <<>> =>
           /\ Len(messages) = 2
           /\ messages[1].role = "system"
           /\ messages[2] = [role |-> "user", content |-> <<query>>]
           /\ \A p \in sandbox_files :
                  /\ p = <<"./", uploaded_file>>
                  /\ Cardinality({i \in 1..Len(messages[1].content) :
                                     HoldsAt(messages[1].content, p, i)}) = 2
                  /\ \A i \in 1..Len(messages[1].content) :
                         messages[1].content[i] \in FileNames
                             => HoldsAt(messages[1].content, p, i - 1)

C10_Witness ==
    /\ pc = "done"
    /\ uploaded_file = "sales.csv"
    /\ query = "q2"
    /\ sandbox_files = {<<"./", "sales.csv">>}
    /\ Len(messages) = 2

====
